---- MODULE Spec2Model ----
(***************************************************************************)
(* State-machine model of src/app.js: the ThemeManager, the                *)
(* MobileNavigation, the NavigationHighlight, the ContactForm, and the     *)
(* script-level audio player with its visualizer canvas and render loop.   *)
(* Every handler of the program runs to completion on one event loop, so   *)
(* each handler is one action.  The components share no state; each has    *)
(* its own specification over the common variables.                        *)
(***************************************************************************)
EXTENDS Integers, Sequences, FiniteSets, TLC

VARIABLES
  \* ---- ThemeManager (src/app.js 2-33) ----
  storedTheme,     \* localStorage item 'theme' (NULL when absent)
  colorScheme,     \* documentElement attribute data-color-scheme (NULL when absent)
  tmTheme,         \* ThemeManager.theme (NULL before construction)
  prefersDark,     \* matchMedia('(prefers-color-scheme: dark)').matches
  hasThemeToggle,  \* the page has an element with id themeToggle
  lastApplied,     \* history: argument of the last setTheme call
  toggleRun,       \* history: consecutive toggle() calls, counted 0, 1, 2
  toggleSnap,      \* history: <<theme, attribute, stored>> before the current pair of toggles
  themeOp,         \* history: the theme operation that ran last, with what it read
  \* ---- audio player (src/app.js 500-640) ----
  ctxState,        \* audioCtx.state
  resumePending,   \* a promise of audioCtx.resume() has not settled
  paused,          \* audio.paused of every audio element
  muted,           \* audio.muted of every audio element
  currentTime,     \* audio.currentTime of every audio element
  icon,            \* style.display of the two icons of every play button
  currentAudio,    \* let currentAudio
  currentSource,   \* let currentSource
  animationId,     \* let animationId (0 when null)
  sourceMap,       \* const sourceMap: serial of the node cached per element, 0 = none
  createCalls,     \* history: createMediaElementSource calls per element
  connected,       \* source nodes connected to the analyser
  canvasActive,    \* canvas.classList has 'active'
  rafQueue,        \* pending requestAnimationFrame callbacks
  rafCounter,      \* last handle requestAnimationFrame returned
  firstClickArmed, \* the onFirstClick listener is registered on document.body
  lastOp,          \* history: what the handler that returned last did
  \* ---- ContactForm (src/app.js 206-339) ----
  fields,          \* values of the form's name, email and message controls
  btnText,         \* textContent of the submit button
  btnDisabled,     \* disabled of the submit button
  inflight,        \* handleSubmit invocations suspended at await, oldest first
  messages,        \* the .form-message elements in the document
  dismissTimers,   \* pending 5000 ms timers of showMessage, one per element made
  formOp,          \* history: what the form handler that returned last did
  \* ---- visualizer canvas (src/app.js 506-519) ----
  styleW,          \* computed style width of the canvas, in half CSS pixels
  styleH,          \* computed style height of the canvas, in half CSS pixels
  dpr,             \* window.devicePixelRatio, in percent
  canvasW,         \* canvas.width: columns of the backing buffer
  canvasH,         \* canvas.height: rows of the backing buffer
  ctxScale,        \* scale of the 2D context's transform, in percent
  resizeRun,       \* history: resizeCanvas calls since the style or the ratio changed
  resizeSnap,      \* history: <<width, height, scale>> the first of these calls left
  \* ---- NavigationHighlight (src/app.js 159-203) ----
  sectionTop,      \* offsetTop of every section[id]
  sectionHeight,   \* offsetHeight of every section[id]
  scrollY,         \* window.scrollY
  activeLinks,     \* hrefs of the .nav-link elements that carry the class 'active'
  scrollFrames,    \* animation frames the scroll listener has requested
  highlightedAt,   \* history: scrollY as the last updateActiveLink call read it
  scrollOp,        \* history: "init", "scroll" or "frame", the step taken last
  \* ---- script load and MobileNavigation (src/app.js 36-78, 453-467, 506-507) ----
  hasNavToggle,    \* the page has an element with id navToggle
  hasNavMenu,      \* the page has an element with id navMenu
  hasCanvas,       \* the page has an element with id visualizer
  hasForm,         \* the page has an element with id contactForm
  formBound,       \* ContactForm.init has registered the submit listener
  phase,           \* "parsed", "scripted" (script has run) or "ready" (components built)
  menuActive,      \* navMenu.classList has 'active'
  toggleActive,    \* navToggle.classList has 'active'
  uncaught,        \* history: source lines at which an uncaught error was raised
  navOp,           \* history: the last click, its target and the menu's state before it
  bodyLoaded,      \* document.body.classList has 'loaded'
  scrollTarget,    \* top of the smooth scroll SmoothScroll requested last (-1: none)
  urlHash          \* the fragment history.pushState put into the URL last

themeVars == <<storedTheme, colorScheme, tmTheme, prefersDark, hasThemeToggle, lastApplied,
               toggleRun, toggleSnap, themeOp>>
audioVars == <<ctxState, resumePending, paused, muted, currentTime, icon, currentAudio,
               currentSource, animationId, sourceMap, createCalls, connected,
               canvasActive, rafQueue, rafCounter, firstClickArmed, lastOp>>
formVars == <<fields, btnText, btnDisabled, inflight, messages, dismissTimers, formOp>>
canvasVars == <<styleW, styleH, dpr, canvasW, canvasH, ctxScale, resizeRun, resizeSnap>>
scrollVars == <<sectionTop, sectionHeight, scrollY, activeLinks, scrollFrames, highlightedAt,
                scrollOp>>
navVars == <<hasNavToggle, hasNavMenu, hasCanvas, hasForm, formBound, phase,
             menuActive, toggleActive, uncaught, navOp, bodyLoaded, scrollTarget, urlHash>>
vars == <<themeVars, audioVars, formVars, canvasVars, scrollVars, navVars>>

\* what the handlers of one component leave alone
notTheme == <<audioVars, formVars, canvasVars, scrollVars, navVars>>
notAudio == <<themeVars, formVars, canvasVars, scrollVars, navVars>>
notForm == <<themeVars, audioVars, canvasVars, scrollVars, navVars>>
notCanvas == <<themeVars, audioVars, formVars, scrollVars, navVars>>
notScroll == <<themeVars, audioVars, formVars, canvasVars, navVars>>
notNav == <<themeVars, audioVars, formVars, canvasVars, scrollVars>>

NULL == "null"

(***************************************************************************)
(* ThemeManager                                                            *)
(***************************************************************************)

\* Strings a caller passes to setTheme; "", "auto" and "blue" stand for the
\* values outside the enumeration {light, dark}.
ThemeValues == {"light", "dark", "auto", "blue", ""}

\* What localStorage may hold under 'theme' when the page is first opened.
StoredValues == ThemeValues \cup {NULL}

\* JavaScript truthiness of a localStorage.getItem result: null and "" are falsy.
Truthy(v) == v # NULL /\ v # ""

\* a constructor that never reads localStorage
ResolveTheme_osOnly(stored, dark) == IF dark THEN "dark" ELSE "light"

\* constructor, lines 4-5: localStorage.getItem('theme') || (matches ? 'dark' : 'light')
ResolveTheme(stored, dark) ==
  IF Truthy(stored) THEN stored ELSE IF dark THEN "dark" ELSE "light"

\* toggle, line 21: this.theme === 'light' ? 'dark' : 'light'
ToggledTheme(theme) == IF theme = "light" THEN "dark" ELSE "light"

\* setTheme that forgets localStorage.setItem
ApplyTheme_noPersist(theme) ==
  /\ tmTheme' = theme
  /\ colorScheme' = theme
  /\ lastApplied' = theme
  /\ UNCHANGED storedTheme

\* setTheme, lines 14-18
ApplyTheme(theme) ==
  /\ tmTheme' = theme
  /\ colorScheme' = theme
  /\ storedTheme' = theme
  /\ lastApplied' = theme

\* history record: op is the operation, stored and dark are the localStorage
\* item and the OS preference as the operation found them
ThemeOp(op) == [op |-> op, stored |-> storedTheme, dark |-> prefersDark]

\* the theme of a page that has not built its ThemeManager: localStorage holds
\* what earlier visits left, the document has no data-color-scheme attribute
ThemeInit ==
  /\ themeOp = [op |-> "none", stored |-> NULL, dark |-> FALSE]
  /\ storedTheme \in StoredValues
  /\ colorScheme = NULL
  /\ tmTheme = NULL
  /\ prefersDark \in BOOLEAN
  /\ hasThemeToggle \in BOOLEAN
  /\ lastApplied = NULL
  /\ toggleRun = 0
  /\ toggleSnap = <<NULL, NULL, NULL>>

\* new ThemeManager(), lines 3-12: constructor and init()
newThemeManager ==
  /\ ApplyTheme(ResolveTheme(storedTheme, prefersDark))
  /\ themeOp' = ThemeOp("load")
  /\ toggleRun' = 0
  /\ UNCHANGED <<prefersDark, hasThemeToggle, toggleSnap>>

\* a direct setTheme(value) call
SetTheme(value) ==
  /\ tmTheme # NULL
  /\ ApplyTheme(value)
  /\ themeOp' = ThemeOp("set")
  /\ toggleRun' = 0
  /\ UNCHANGED <<prefersDark, hasThemeToggle, toggleSnap>>
  /\ UNCHANGED notTheme

\* toggle(), lines 20-22
toggleCall ==
  /\ ApplyTheme(ToggledTheme(tmTheme))
  /\ themeOp' = ThemeOp("toggle")
  /\ IF toggleRun = 1
       THEN toggleRun' = 2 /\ UNCHANGED toggleSnap
       ELSE toggleRun' = 1 /\ toggleSnap' = <<tmTheme, colorScheme, storedTheme>>
  /\ UNCHANGED <<prefersDark, hasThemeToggle>>

\* a direct toggle() call on the constructed ThemeManager
Toggle ==
  /\ tmTheme # NULL
  /\ toggleCall
  /\ UNCHANGED notTheme

\* the OS colour-scheme preference changes (nothing listens to it)
OsSchemeChange ==
  /\ prefersDark' = ~prefersDark
  /\ themeOp' = ThemeOp("os")
  /\ toggleRun' = 0
  /\ UNCHANGED <<storedTheme, colorScheme, tmTheme, hasThemeToggle, lastApplied, toggleSnap>>
  /\ UNCHANGED notTheme

(***************************************************************************)
(* Audio player and visualizer                                             *)
(***************************************************************************)

\* The audio elements of the page, by id.  "music" is the element that
\* querySelector('audio[src="music.mp3"]') finds.
Tracks == {"beat1", "beat2", "music"}
BgTrack == "music"

\* The tracks for which an element with id btn-<id> exists.
Buttons == {"beat1", "beat2"}

\* Ids togglePlay is called with; "nope" is the id of no element.
Ids == Tracks \cup {"nope"}

\* Length of every track, in playback steps.
Duration == 2

\* Handles requestAnimationFrame hands out before the model stops scheduling.
MaxRaf == 4

\* currentSource when it is null
NoSource == <<NULL, 0>>

NoOp == [op |-> "none", id |-> NULL, prev |-> NULL, prevPlaying |-> FALSE, reused |-> FALSE]

\* the state the script of lines 500-640 leaves, but for the body listener
AudioElements ==
  /\ ctxState = "suspended"
  /\ resumePending = FALSE
  /\ paused = [t \in Tracks |-> TRUE]
  /\ muted = [t \in Tracks |-> t = BgTrack]
  /\ currentTime = [t \in Tracks |-> 0]
  /\ icon = [t \in Buttons |-> [play |-> "", pause |-> ""]]
  /\ currentAudio = NULL
  /\ currentSource = NoSource
  /\ animationId = 0
  /\ sourceMap = [t \in Tracks |-> 0]
  /\ createCalls = [t \in Tracks |-> 0]
  /\ connected = {}
  /\ canvasActive = FALSE
  /\ rafQueue = {}
  /\ rafCounter = 0
  /\ lastOp = NoOp

AudioInit ==
  /\ AudioElements
  /\ firstClickArmed = TRUE

\* updateButtonIcon(id, isPlaying), lines 572-584, as the new value of icon
updateButtonIcon(ic, id, isPlaying) ==
  IF id \notin Buttons THEN ic
  ELSE [ic EXCEPT ![id] = IF isPlaying
                            THEN [play |-> "none", pause |-> "inline"]
                            ELSE [play |-> "inline", pause |-> "none"]]

\* a cache lookup that never hits
sourceMapHas_never(sm, t) == FALSE

\* sourceMap.has(audio), line 559
sourceMapHas(sm, t) == sm[t] # 0

\* if (animationId) cancelAnimationFrame(animationId), lines 619-622; a handle
\* is a positive number and 0 stands for null
cancelAnimationFrame(queue, handle) ==
  IF handle # 0 THEN {f \in queue : f.id # handle} ELSE queue

\* if (currentSource) currentSource.disconnect(), lines 627-630
disconnectSource(conn, source) ==
  IF source # NoSource THEN conn \ {source} ELSE conn

\* a switch that leaves the replaced track playing
pauseOther_skip(p, cur, id) == p

\* currentAudio.pause() of the track being replaced, lines 546-547
pauseOther(p, cur, id) ==
  IF cur # NULL /\ cur # id THEN [p EXCEPT ![cur] = TRUE] ELSE p

\* a start that resumes from the position the track was paused at
rewind_resume(ct, id) == ct

\* audio.currentTime = 0, line 553
rewind(ct, id) == [ct EXCEPT ![id] = 0]

\* togglePlay(id) when the current track is playing: lines 537-543
TogglePause(id) ==
  /\ paused' = [paused EXCEPT ![id] = TRUE]
  /\ icon' = updateButtonIcon(icon, id, FALSE)
  \* stopVisualizer()
  /\ rafQueue' = cancelAnimationFrame(rafQueue, animationId)
  /\ animationId' = 0
  /\ canvasActive' = FALSE
  /\ connected' = disconnectSource(connected, currentSource)
  /\ currentSource' = NoSource
  /\ currentAudio' = NULL
  /\ lastOp' = [op |-> "pause", id |-> id, prev |-> currentAudio, prevPlaying |-> TRUE,
                reused |-> FALSE]
  /\ UNCHANGED <<currentTime, muted, sourceMap, createCalls, rafCounter>>

\* togglePlay(id) otherwise: lines 545-569
TogglePlayStart(id) ==
  LET switching == currentAudio # NULL /\ currentAudio # id
      \* lines 546-550: pause the other track, reset its icon, stopVisualizer()
      paused1 == pauseOther(paused, currentAudio, id)
      icon1 == IF switching THEN updateButtonIcon(icon, currentAudio, FALSE) ELSE icon
      queue1 == IF switching THEN cancelAnimationFrame(rafQueue, animationId) ELSE rafQueue
      conn1 == IF switching THEN disconnectSource(connected, currentSource) ELSE connected
      \* lines 559-563: create the source node once, then read it from the map
      create == ~sourceMapHas(sourceMap, id)
      calls1 == IF create THEN [createCalls EXCEPT ![id] = @ + 1] ELSE createCalls
      map1 == IF create THEN [sourceMap EXCEPT ![id] = calls1[id]] ELSE sourceMap
      source == <<id, map1[id]>>
      handle == rafCounter + 1
  IN
  /\ rafCounter < MaxRaf
  /\ currentTime' = rewind(currentTime, id)
  /\ paused' = [paused1 EXCEPT ![id] = FALSE]
  /\ icon' = updateButtonIcon(icon1, id, TRUE)
  /\ currentAudio' = id
  /\ createCalls' = calls1
  /\ sourceMap' = map1
  /\ currentSource' = source
  /\ connected' = conn1 \cup {source}
  \* startVisualizer(): the class, then visualize() requests the first frame
  /\ canvasActive' = TRUE
  /\ rafCounter' = handle
  /\ animationId' = handle
  /\ rafQueue' = queue1 \cup {[id |-> handle, track |-> id]}
  /\ lastOp' = [op |-> "play", id |-> id, prev |-> currentAudio,
                prevPlaying |-> (currentAudio # NULL /\ ~paused[currentAudio]),
                reused |-> ~create]
  /\ UNCHANGED muted

\* togglePlay(id), lines 528-570
togglePlay(id) ==
  /\ IF id \notin Tracks
       THEN /\ lastOp' = [op |-> "noelement", id |-> id, prev |-> currentAudio,
                          prevPlaying |-> FALSE, reused |-> FALSE]
            /\ UNCHANGED <<resumePending, paused, muted, currentTime, icon, currentAudio,
                           currentSource, animationId, sourceMap, createCalls,
                           connected, canvasActive, rafQueue, rafCounter>>
       ELSE \* lines 532-534: resume() only requests the change of state
            /\ resumePending' = (resumePending \/ ctxState = "suspended")
            /\ IF currentAudio = id /\ ~paused[id]
                 THEN TogglePause(id)
                 ELSE TogglePlayStart(id)
  /\ UNCHANGED <<ctxState, firstClickArmed>>
  /\ UNCHANGED notAudio

\* the browser resumes the context in a later task and settles the promise
\* of audioCtx.resume(); a browser that refuses leaves the promise pending
ContextResumed ==
  /\ resumePending
  /\ resumePending' = FALSE
  /\ ctxState' = "running"
  /\ UNCHANGED <<paused, muted, currentTime, icon, currentAudio, currentSource,
                 animationId, sourceMap, createCalls, connected, canvasActive,
                 rafQueue, rafCounter, firstClickArmed, lastOp>>
  /\ UNCHANGED notAudio

\* a listener that stays registered
removeListener_keep(armed) == armed

\* document.body.removeEventListener('click', onFirstClick), line 639
removeListener(armed) == FALSE

\* the listeners of document.body that a click runs: onFirstClick, lines
\* 633-640, while it is registered
onFirstClick ==
  /\ IF firstClickArmed
       THEN /\ muted' = [muted EXCEPT ![BgTrack] = FALSE]
            \* play() of an element that has ended starts over from position 0
            /\ currentTime' = [currentTime EXCEPT ![BgTrack] = IF @ = Duration THEN 0 ELSE @]
            /\ paused' = [paused EXCEPT ![BgTrack] = FALSE]
            /\ firstClickArmed' = removeListener(firstClickArmed)
       ELSE UNCHANGED <<muted, currentTime, paused, firstClickArmed>>
  /\ lastOp' = [NoOp EXCEPT !.op = "click"]
  /\ UNCHANGED <<ctxState, resumePending, icon, currentAudio, currentSource, animationId,
                 sourceMap, createCalls, connected, canvasActive, rafQueue, rafCounter>>

\* the browser runs one pending animation-frame callback: visualize, lines 586-611
Frame(f) ==
  /\ f \in rafQueue
  /\ rafCounter < MaxRaf
  /\ rafCounter' = rafCounter + 1
  /\ animationId' = rafCounter + 1
  /\ rafQueue' = (rafQueue \ {f}) \cup {[id |-> rafCounter + 1, track |-> f.track]}
  /\ lastOp' = [NoOp EXCEPT !.op = "frame"]
  /\ UNCHANGED <<ctxState, resumePending, paused, muted, currentTime, icon, currentAudio, currentSource,
                 sourceMap, createCalls, connected, canvasActive, firstClickArmed>>
  /\ UNCHANGED notAudio

\* playback of a playing element advances; at the end of the track the element
\* pauses by itself (no handler of the program runs)
Playback(t) ==
  /\ ~paused[t]
  /\ currentTime[t] < Duration
  /\ currentTime' = [currentTime EXCEPT ![t] = @ + 1]
  /\ paused' = [paused EXCEPT ![t] = (currentTime[t] + 1 = Duration)]
  /\ lastOp' = [NoOp EXCEPT !.op = "playback"]
  /\ UNCHANGED <<ctxState, resumePending, muted, icon, currentAudio, currentSource, animationId,
                 sourceMap, createCalls, connected, canvasActive, rafQueue, rafCounter,
                 firstClickArmed>>
  /\ UNCHANGED notAudio

(***************************************************************************)
(* ContactForm                                                             *)
(***************************************************************************)

\* setTimeout(resolve, 1500) of simulateSubmit
SubmitDelay == 1500

\* setTimeout(..., 5000) of showMessage
DismissDelay == 5000

\* Time advances in steps of at most a third of the submit delay.
TickMs == SubmitDelay \div 3

\* The event loop may be busy when a timer falls due, for any length of
\* time; the model follows a callback up to MaxLate steps of time past its
\* delay.
MaxLate == 2
MaxLateMs == MaxLate * TickMs

\* Submissions that may await their completion at once.
MaxInFlight == 2

\* Dismissal timers that may be pending at once.
MaxTimers == 2

\* Longest e-mail value the validation is tried on.
MaxEmailLen == 5

\* The label of the submit button in the page's markup.
IdleLabel == "Send Message"

\* Characters of the field values: a letter, the two separators and a blank.
Chars == {"a", "@", ".", " "}

\* \s of the regular expression and the characters trim() strips
IsSpace(c) == c = " "

Str(n) == UNION {[1..k -> Chars] : k \in 0..n}

\* String.prototype.trim, lines 264, 268, 274
RECURSIVE trim(_)
trim(str) ==
  IF str = <<>> THEN <<>>
  ELSE IF IsSpace(Head(str)) THEN trim(Tail(str))
  ELSE IF IsSpace(str[Len(str)]) THEN trim(SubSeq(str, 1, Len(str) - 1))
  ELSE str

\* [^\s@], line 287
InClass(c) == ~IsSpace(c) /\ c # "@"

\* isValidEmail, lines 286-289: /^[^\s@]+@[^\s@]+\.[^\s@]+$/ matches the value
\* when it splits at some "@" and some later "." into three non-empty runs of
\* the class
isValidEmail(email) ==
  \E i \in 1..Len(email) : \E j \in 1..Len(email) :
     /\ email[i] = "@" /\ email[j] = "."
     /\ 1 < i /\ i + 1 < j /\ j < Len(email)
     /\ \A k \in 1..Len(email) : k \notin {i, j} => InClass(email[k])

\* a validation that stops at the first violated field
validateErrors_failFast(data) ==
  IF trim(data.name) = <<>> THEN <<"Name is required">>
  ELSE IF trim(data.email) = <<>> THEN <<"Email is required">>
  ELSE IF ~isValidEmail(data.email) THEN <<"Please enter a valid email address">>
  ELSE IF trim(data.message) = <<>> THEN <<"Message is required">>
  ELSE <<>>

\* the errors array of validateForm, lines 262-276
validateErrors(data) ==
  (IF trim(data.name) = <<>> THEN <<"Name is required">> ELSE <<>>)
  \o (IF trim(data.email) = <<>> THEN <<"Email is required">>
      ELSE IF ~isValidEmail(data.email) THEN <<"Please enter a valid email address">>
      ELSE <<>>)
  \o (IF trim(data.message) = <<>> THEN <<"Message is required">> ELSE <<>>)

SuccessText == <<"Message sent successfully! I'll get back to you soon.">>
FailureText == <<"Sorry, there was an error sending your message. Please try again.">>

EmptyFields == [name |-> <<>>, email |-> <<>>, message |-> <<>>]

\* Drafts a visitor types into the form: the two of the specification and
\* some with one field violated.
Drafts ==
  { [name |-> <<>>, email |-> <<"a", "a", "a">>, message |-> <<>>],
    [name |-> <<"a">>, email |-> <<"a", "@", "a", ".", "a">>, message |-> <<"a", "a">>],
    [name |-> <<" ">>, email |-> <<"a", "@", "a", ".", "a">>, message |-> <<"a">>],
    [name |-> <<"a">>, email |-> <<"a", "@", "a">>, message |-> <<"a">>],
    [name |-> <<"a">>, email |-> <<"a", "@", "a", ".", "a">>, message |-> <<" ">>] }

NoFormOp == [op |-> "none", data |-> EmptyFields, textBefore |-> IdleLabel,
             disabledBefore |-> FALSE, fieldsAfter |-> EmptyFields, timer |-> 0,
             removed |-> {}, waited |-> 0, flightsBefore |-> 0]

FormInit ==
  /\ fields = EmptyFields
  /\ btnText = IdleLabel
  /\ btnDisabled = FALSE
  /\ inflight = <<>>
  /\ messages = {}
  /\ dismissTimers = {}
  /\ formOp = NoFormOp

\* a new element is an object distinct from every element a pending timer or
\* the document still refers to
FreshId(msgs, timers) ==
  CHOOSE n \in 1..(Cardinality(msgs) + Cardinality(timers) + 1) :
     n \notin {m.id : m \in msgs} \cup {t.id : t \in timers}

\* existingMessage.remove() of showMessage, lines 300-303 (querySelector
\* finds one element; the document never holds more)
removeExisting(msgs) ==
  IF msgs = {} THEN {} ELSE msgs \ {CHOOSE m \in msgs : TRUE}

\* showMessage(message, type), lines 298-338: the new values of messages and
\* dismissTimers
showMessage(msgs, timers, text, type) ==
  LET id == FreshId(msgs, timers) IN
  [messages |-> removeExisting(msgs)
                  \cup {[id |-> id, type |-> type, text |-> text, shownFor |-> 0]},
   timers |-> timers \cup {[id |-> id, remaining |-> DismissDelay]}]

\* a reset that leaves the fields as typed
formReset_keep(f) == f

\* this.form.reset(), line 251: every control returns to its empty default
formReset(f) == EmptyFields

\* the visitor edits the fields
FillForm(draft) ==
  /\ fields # draft
  /\ fields' = draft
  /\ formOp' = [NoFormOp EXCEPT !.op = "fill"]
  /\ UNCHANGED <<btnText, btnDisabled, inflight, messages, dismissTimers>>
  /\ UNCHANGED notForm

\* a submit event on the form: handleSubmit up to its return or its await,
\* lines 225-247
HandleSubmit ==
  LET data == fields
      errors == validateErrors(data)
      shown == showMessage(messages, dismissTimers, errors, "error")
      op == [NoFormOp EXCEPT !.data = data, !.textBefore = btnText,
                             !.disabledBefore = btnDisabled,
                             !.flightsBefore = Len(inflight)]
  IN
  /\ Cardinality(dismissTimers) + Len(inflight) < MaxTimers
  /\ IF Len(errors) > 0
       THEN \* validateForm shows the errors and returns false, lines 278-281
            /\ messages' = shown.messages
            /\ dismissTimers' = shown.timers
            /\ formOp' = [op EXCEPT !.op = "invalid", !.fieldsAfter = fields]
            /\ UNCHANGED <<fields, btnText, btnDisabled, inflight>>
       ELSE \* lines 238-247
            /\ Len(inflight) < MaxInFlight
            /\ btnText' = "Sending..."
            /\ btnDisabled' = TRUE
            /\ inflight' = Append(inflight, [originalText |-> btnText,
                                             remaining |-> SubmitDelay])
            /\ formOp' = [op EXCEPT !.op = "submitted", !.fieldsAfter = fields]
            /\ UNCHANGED <<fields, messages, dismissTimers>>
  /\ UNCHANGED notForm

\* time that remains until the next timer is due; negative when a timer is
\* overdue
NextDue ==
  LET rs == {t.remaining : t \in dismissTimers}
              \cup {inflight[i].remaining : i \in 1..Len(inflight)}
  IN CHOOSE r \in rs : \A q \in rs : r <= q

\* the timer of simulateSubmit fires and the oldest handleSubmit resumes after
\* its await: lines 249-251 and the finally block, lines 255-258
SubmitResolve ==
  LET shown == showMessage(messages, dismissTimers, SuccessText, "success") IN
  /\ inflight # <<>>
  /\ Head(inflight).remaining <= 0
  /\ Head(inflight).remaining = NextDue
  /\ messages' = shown.messages
  /\ dismissTimers' = shown.timers
  /\ fields' = formReset(fields)
  /\ btnText' = Head(inflight).originalText
  /\ btnDisabled' = FALSE
  /\ inflight' = Tail(inflight)
  /\ formOp' = [NoFormOp EXCEPT !.op = "resolved",
                                !.waited = SubmitDelay - Head(inflight).remaining]
  /\ UNCHANGED notForm

\* a timer callback that removes whichever message is displayed
dismissOwn_any(msgs, id) == {}

\* a timer callback of showMessage, lines 333-337: it removes its own element
\* if that is still in the document
dismissOwn(msgs, id) == {m \in msgs : m.id # id}

DismissFire(t) ==
  /\ t \in dismissTimers
  /\ t.remaining <= 0
  /\ t.remaining = NextDue
  /\ dismissTimers' = dismissTimers \ {t}
  /\ messages' = dismissOwn(messages, t.id)
  /\ formOp' = [NoFormOp EXCEPT !.op = "dismiss", !.timer = t.id,
                                !.removed = {m.id : m \in messages \ messages'}]
  /\ UNCHANGED <<fields, btnText, btnDisabled, inflight>>
  /\ UNCHANGED notForm

\* time passes: up to the moment the next timer is due, or, with the event
\* loop busy, past a due timer by at most MaxLateMs
Tick ==
  LET pendingTimers == dismissTimers # {} \/ inflight # <<>>
      d == IF 0 < NextDue /\ NextDue < TickMs THEN NextDue ELSE TickMs
  IN
  /\ pendingTimers
  /\ NextDue - d >= 0 - MaxLateMs
  /\ dismissTimers' = {[t EXCEPT !.remaining = @ - d] : t \in dismissTimers}
  /\ inflight' = [i \in 1..Len(inflight) |-> [inflight[i] EXCEPT !.remaining = @ - d]]
  /\ messages' = {[m EXCEPT !.shownFor = @ + d] : m \in messages}
  /\ formOp' = [NoFormOp EXCEPT !.op = "tick"]
  /\ UNCHANGED <<fields, btnText, btnDisabled>>
  /\ UNCHANGED notForm

(***************************************************************************)
(* Visualizer canvas                                                       *)
(***************************************************************************)

\* Computed style lengths of the canvas, in half CSS pixels: 150px, 150.5px
\* and 300px.
StyleSizes == {300, 301, 600}

\* Device pixel ratios in percent: 1, 1.5 and 2.
Ratios == {100, 150, 200}

\* How many successive resizeCanvas calls the history counts.
MaxResizeRuns == 3

\* parseInt of a computed length such as "150.5px": the whole pixels
parseInt(halfPx) == halfPx \div 2

\* lines 514-515: the product width * devicePixelRatio, stored into the
\* unsigned long attribute, which drops the fraction
bufferSize(px, ratio) == (px * ratio) \div 100

\* an assignment to canvas.width that kept the context's transform
resetTransform_keep(scale) == scale

\* assigning canvas.width or canvas.height resets the 2D context, its
\* transform included, to the identity
resetTransform(scale) == 100

\* ctx.scale(r, r), line 516
scaled(scale, ratio) == (scale * ratio) \div 100

CanvasInit ==
  /\ styleW \in StyleSizes
  /\ styleH \in StyleSizes
  /\ dpr \in Ratios
  /\ canvasW = bufferSize(parseInt(styleW), dpr)
  /\ canvasH = bufferSize(parseInt(styleH), dpr)
  /\ ctxScale = dpr
  /\ resizeRun = 1
  /\ resizeSnap = <<canvasW, canvasH, ctxScale>>

\* resizeCanvas(), lines 509-517
resizeCanvasCall ==
  /\ canvasW' = bufferSize(parseInt(styleW), dpr)
  /\ canvasH' = bufferSize(parseInt(styleH), dpr)
  /\ ctxScale' = scaled(resetTransform(ctxScale), dpr)
  /\ resizeRun' = IF resizeRun < MaxResizeRuns THEN resizeRun + 1 ELSE resizeRun
  /\ resizeSnap' = IF resizeRun = 0 THEN <<canvasW', canvasH', ctxScale'>> ELSE resizeSnap
  /\ UNCHANGED <<styleW, styleH, dpr>>

\* the resize listener of line 518 or a direct call
resizeCanvas ==
  /\ resizeCanvasCall
  /\ UNCHANGED notCanvas

\* the layout or the zoom changes the canvas's computed size or the ratio
ViewportChange(w, h, r) ==
  /\ <<w, h, r>> # <<styleW, styleH, dpr>>
  /\ styleW' = w
  /\ styleH' = h
  /\ dpr' = r
  /\ resizeRun' = 0
  /\ UNCHANGED <<canvasW, canvasH, ctxScale, resizeSnap>>
  /\ UNCHANGED notCanvas

\* the canvas before the script has run: the buffer has the default size of
\* a canvas element, 300 by 150
CanvasUnsized ==
  /\ styleW = 300
  /\ styleH = 300
  /\ dpr = 150
  /\ canvasW = 300
  /\ canvasH = 150
  /\ ctxScale = 100
  /\ resizeRun = 0
  /\ resizeSnap = <<0, 0, 0>>

CanvasIdle ==
  /\ styleW = 300
  /\ styleH = 300
  /\ dpr = 100
  /\ canvasW = 150
  /\ canvasH = 150
  /\ ctxScale = 100
  /\ resizeRun = 1
  /\ resizeSnap = <<150, 150, 100>>

(***************************************************************************)
(* NavigationHighlight                                                     *)
(***************************************************************************)

\* The section[id] elements of the page, in document order.
SectionOrder == <<"home", "about", "contact">>
Sections == {SectionOrder[i] : i \in 1..Len(SectionOrder)}

\* Heights a section can have, gaps between two sections, and where the
\* first section starts (below a header or at the top of the page).
Heights == {100, 300}
Gaps == {0, 60}
FirstTops == {0, 120}

\* line 179: the look-ahead added to window.scrollY
LookAhead == 150

\* line 191: below this scrollY a page position in no section counts as 'home'
HomeThreshold == 100

\* Scroll positions are multiples of ScrollStep up to MaxScroll.
ScrollStep == LookAhead \div 3
MaxScroll == 600
ScrollPositions == {y \in 0..MaxScroll : y % ScrollStep = 0}

\* Animation frames the scroll listener can have pending.
MaxScrollFrames == 2

\* hrefs of the .nav-link elements: one per section, the logo's "#" and a
\* link that leaves the page
Href(id) == "#" \o id
NavLinks == {Href(id) : id \in Sections} \cup {"#", "cv.html"}

\* an offset point that is the scroll position itself
scrollPosition_raw(y) == y

\* line 179
scrollPosition(y) == y + LookAhead

\* line 185: the section's vertical bounds contain the point
contains(tops, heights, id, point) ==
  point >= tops[id] /\ point < tops[id] + heights[id]

\* lines 181-188: forEach keeps the last section whose bounds contain the point
detectSection(tops, heights, point) ==
  LET hits == {i \in 1..Len(SectionOrder) : contains(tops, heights, SectionOrder[i], point)}
  IN IF hits = {} THEN ""
     ELSE SectionOrder[CHOOSE i \in hits : \A j \in hits : j <= i]

\* lines 178-193
currentSection(tops, heights, y) ==
  LET found == detectSection(tops, heights, scrollPosition(y))
  IN IF found = "" /\ y < HomeThreshold THEN "home" ELSE found

\* lines 195-201: the links left with the class 'active'
activeFor(tops, heights, y) ==
  {href \in NavLinks : href = Href(currentSection(tops, heights, y))}

\* offsetTop of the i-th section when the sections lie one below the other,
\* the first at first, every two separated by gap
RECURSIVE stackedTop(_, _, _, _)
stackedTop(heights, first, gap, i) ==
  IF i = 1 THEN first
  ELSE stackedTop(heights, first, gap, i - 1) + heights[SectionOrder[i - 1]] + gap

SectionIndex(id) == CHOOSE i \in 1..Len(SectionOrder) : SectionOrder[i] = id

\* the sections of the page, one below the other
SectionLayout ==
  /\ sectionHeight \in [Sections -> Heights]
  /\ \E first \in FirstTops, gap \in Gaps :
        sectionTop = [id \in Sections |->
                         stackedTop(sectionHeight, first, gap, SectionIndex(id))]

\* new NavigationHighlight(), lines 160-170: init() calls updateActiveLink
newNavigationHighlight ==
  /\ activeLinks' = activeFor(sectionTop, sectionHeight, scrollY)
  /\ highlightedAt' = scrollY
  /\ scrollOp' = "init"
  /\ UNCHANGED <<sectionTop, sectionHeight, scrollY, scrollFrames>>

\* the page before new NavigationHighlight(): no link is marked; its
\* sections are equally high and lie one below the other without gaps
ScrollUnbuilt ==
  /\ SectionLayout
  /\ \A id \in Sections : sectionHeight[id] = 300
  /\ \A i \in 2..Len(SectionOrder) :
        sectionTop[SectionOrder[i]] = sectionTop[SectionOrder[i - 1]] + 300
  /\ scrollY = 0
  /\ activeLinks = {}
  /\ scrollFrames = 0
  /\ highlightedAt = 0
  /\ scrollOp = "none"

\* the state after new NavigationHighlight(): init() has called updateActiveLink
ScrollInit ==
  /\ SectionLayout
  /\ scrollY \in ScrollPositions
  /\ activeLinks = activeFor(sectionTop, sectionHeight, scrollY)
  /\ scrollFrames = 0
  /\ highlightedAt = scrollY
  /\ scrollOp = "init"

\* the window scrolls to y; the scroll listener of lines 172-174 requests a frame
ScrollTo(y) ==
  /\ y # scrollY
  /\ scrollFrames < MaxScrollFrames
  /\ scrollY' = y
  /\ scrollFrames' = scrollFrames + 1
  /\ scrollOp' = "scroll"
  /\ UNCHANGED <<sectionTop, sectionHeight, activeLinks, highlightedAt>>
  /\ UNCHANGED notScroll

\* a requested frame runs updateActiveLink, lines 177-202
updateActiveLink ==
  /\ scrollFrames > 0
  /\ scrollFrames' = scrollFrames - 1
  /\ activeLinks' = activeFor(sectionTop, sectionHeight, scrollY)
  /\ highlightedAt' = scrollY
  /\ scrollOp' = "frame"
  /\ UNCHANGED <<sectionTop, sectionHeight, scrollY>>
  /\ UNCHANGED notScroll

ScrollIdle ==
  /\ sectionTop = [id \in Sections |-> 0]
  /\ sectionHeight = [id \in Sections |-> 0]
  /\ scrollY = 0
  /\ activeLinks = activeFor(sectionTop, sectionHeight, scrollY)
  /\ scrollFrames = 0
  /\ highlightedAt = 0
  /\ scrollOp = "init"

(***************************************************************************)
(* Script load and MobileNavigation                                        *)
(***************************************************************************)

\* Where a click can land: on the toggle button, on a .nav-link inside the
\* menu, elsewhere inside the menu, on a .nav-link outside the menu, on an
\* anchor that is no .nav-link, on #themeToggle, or on anything else.  The
\* last three are outside both the toggle and the menu.
ClickTargets == {"toggle", "menuLink", "menu", "otherLink", "anchor", "themeToggle",
                 "outside"}

\* the targets that are anchors, lines 94-96
IsAnchor(target) == target \in {"menuLink", "otherLink", "anchor"}

\* the targets that are .nav-link elements
IsNavLink(target) == target \in {"menuLink", "otherLink"}

\* navToggle.contains(e.target) and navMenu.contains(e.target), line 63
toggleContains(target) == target = "toggle"
menuContains(target) == target \in {"menuLink", "menu"}

\* an outside test that forgets the toggle
clickedOutside_menuOnly(target) == ~menuContains(target)

\* the condition of line 63
clickedOutside(target) == ~toggleContains(target) /\ ~menuContains(target)

\* The classes and the errors raised so far, threaded through the listeners
\* that one click runs.
NavState == [menu |-> menuActive, toggle |-> toggleActive, errs |-> uncaught]

raise(st, line) == [st EXCEPT !.errs = @ \cup {line}]

\* toggleMenu, lines 69-72; it runs from the listener bound to navToggle, so
\* navToggle exists
toggleMenu(st) ==
  IF ~hasNavMenu THEN raise(st, 70)
  ELSE [st EXCEPT !.menu = ~@, !.toggle = ~@]

\* closeMenu, lines 74-77
closeMenu(st) ==
  IF ~hasNavMenu THEN raise(st, 75)
  ELSE IF ~hasNavToggle THEN raise([st EXCEPT !.menu = FALSE], 76)
  ELSE [st EXCEPT !.menu = FALSE, !.toggle = FALSE]

\* the listeners bound to the click's target: lines 49-54 and 57-59
targetListener(st, target) ==
  IF target = "toggle" THEN toggleMenu(st)
  ELSE IF IsNavLink(target) THEN closeMenu(st)
  ELSE st

\* the document listener, lines 62-66; && evaluates navMenu only when the
\* toggle does not contain the target
documentListener(st, target) ==
  IF ~hasNavToggle THEN raise(st, 63)
  ELSE IF ~toggleContains(target) /\ ~hasNavMenu THEN raise(st, 63)
  ELSE IF clickedOutside(target) THEN closeMenu(st)
  ELSE st

\* SmoothScroll, line 98: the link's href starts with '#'
SectionLinks == {Href(id) : id \in Sections}
startsWithHash(href) == href \in SectionLinks \cup {"#"}

\* line 110: the height of the fixed navigation bar
NavOffset == 80

\* scrollToTarget(href), lines 106-122: the top window.scrollTo is asked for
\* when querySelector finds the section, -1 when it finds nothing
scrollTop(href) ==
  IF href \notin SectionLinks THEN -1
  ELSE LET id == CHOOSE i \in Sections : Href(i) = href
           offsetTop == sectionTop[id] - NavOffset
       IN IF offsetTop > 0 THEN offsetTop ELSE 0

\* the document listener of SmoothScroll, lines 92-103, on the errors raised
\* so far: querySelector('#') raises a SyntaxError at line 107
smoothScrollListener(st, href) ==
  IF href = "#" THEN raise(st, 107) ELSE st

NoNavOp == [target |-> NULL, href |-> NULL, menuBefore |-> FALSE, bound |-> FALSE]

NavInit ==
  /\ hasNavToggle \in BOOLEAN
  /\ hasNavMenu \in BOOLEAN
  /\ hasCanvas \in BOOLEAN
  /\ hasForm \in BOOLEAN
  /\ formBound = FALSE
  /\ phase = "parsed"
  /\ menuActive = FALSE
  /\ toggleActive = FALSE
  /\ uncaught = {}
  /\ navOp = NoNavOp
  /\ bodyLoaded = FALSE
  /\ scrollTarget = -1
  /\ urlHash = ""

\* the script runs, lines 500-640: lines 506-507 look the canvas up and call
\* getContext on the result.  On a page without the canvas the call raises
\* and the rest of the script is not run; otherwise line 519 sizes the
\* canvas and line 633 registers onFirstClick on document.body
ScriptLoad ==
  /\ phase = "parsed"
  /\ phase' = "scripted"
  /\ IF hasCanvas
       THEN /\ resizeCanvasCall
            /\ firstClickArmed' = TRUE
            /\ UNCHANGED uncaught
       ELSE /\ uncaught' = uncaught \cup {507}
            /\ UNCHANGED <<canvasVars, firstClickArmed>>
  /\ UNCHANGED <<hasNavToggle, hasNavMenu, hasCanvas, hasForm, formBound,
                 menuActive, toggleActive, navOp, bodyLoaded, scrollTarget, urlHash>>
  /\ UNCHANGED <<ctxState, resumePending, paused, muted, currentTime, icon, currentAudio,
                 currentSource, animationId, sourceMap, createCalls, connected,
                 canvasActive, rafQueue, rafCounter, lastOp>>
  /\ UNCHANGED <<themeVars, formVars, scrollVars>>

\* the timer of the DOMContentLoaded listener, lines 455-467: new
\* ThemeManager(); new MobileNavigation() and new SmoothScroll(), whose
\* bindEvents register listeners and touch no element that is missing; new
\* NavigationHighlight(); new ContactForm(), whose init binds the submit
\* listener only when the form exists (lines 212-216); then the class
\* 'loaded' on document.body
ComponentsInit ==
  /\ phase = "scripted"
  /\ phase' = "ready"
  /\ newThemeManager
  /\ newNavigationHighlight
  /\ formBound' = hasForm
  /\ bodyLoaded' = TRUE
  /\ UNCHANGED <<hasNavToggle, hasNavMenu, hasCanvas, hasForm, menuActive, toggleActive,
                 uncaught, navOp, scrollTarget, urlHash>>
  /\ UNCHANGED <<audioVars, formVars, canvasVars>>

\* one click on a target which, if it is an anchor, has the given href.  The
\* listeners that are registered run: those of the target (lines 27-30, 50-53
\* and 58, bound by the DOMContentLoaded timer), then onFirstClick on
\* document.body (bound by the script), then the document listeners of
\* MobileNavigation and of SmoothScroll (bound by the timer)
PageClick(target, href) ==
  LET ready == phase = "ready" IN
  /\ toggleContains(target) => hasNavToggle
  /\ menuContains(target) => hasNavMenu
  /\ target = "themeToggle" => hasThemeToggle
  /\ IsAnchor(target) <=> href # NULL
  /\ IF target = "themeToggle" /\ ready /\ tmTheme # NULL
       THEN toggleCall
       ELSE UNCHANGED themeVars
  /\ onFirstClick
  /\ LET st == IF ready
                 THEN smoothScrollListener(
                        documentListener(targetListener(NavState, target), target), href)
                 ELSE NavState
     IN /\ menuActive' = st.menu
        /\ toggleActive' = st.toggle
        /\ uncaught' = st.errs
  /\ IF ready /\ startsWithHash(href) /\ scrollTop(href) >= 0
       THEN scrollTarget' = scrollTop(href) /\ urlHash' = href
       ELSE UNCHANGED <<scrollTarget, urlHash>>
  /\ navOp' = [target |-> target, href |-> href, menuBefore |-> menuActive,
               bound |-> ready]
  /\ UNCHANGED <<hasNavToggle, hasNavMenu, hasCanvas, hasForm, formBound, phase, bodyLoaded>>
  /\ UNCHANGED <<formVars, canvasVars, scrollVars>>

\* a click on #themeToggle
ThemeToggleClick == PageClick("themeToggle", NULL)

\* a click on an element that has no listener of its own
BodyClick == PageClick("outside", NULL)

NavIdle ==
  /\ hasNavToggle = TRUE
  /\ hasNavMenu = TRUE
  /\ hasCanvas = TRUE
  /\ hasForm = TRUE
  /\ formBound = TRUE
  /\ phase = "ready"
  /\ menuActive = FALSE
  /\ toggleActive = FALSE
  /\ uncaught = {}
  /\ navOp = NoNavOp
  /\ bodyLoaded = TRUE
  /\ scrollTarget = -1
  /\ urlHash = ""

\* the ContactForm's part of the state while another component is studied
FormIdle == FormInit

\* the ThemeManager's part of the state while another component is studied
\* the theme before new ThemeManager(), on a first visit with a light OS
ThemeUnbuilt ==
  /\ themeOp = [op |-> "none", stored |-> NULL, dark |-> FALSE]
  /\ storedTheme = NULL
  /\ colorScheme = NULL
  /\ tmTheme = NULL
  /\ prefersDark = FALSE
  /\ hasThemeToggle \in BOOLEAN
  /\ lastApplied = NULL
  /\ toggleRun = 0
  /\ toggleSnap = <<NULL, NULL, NULL>>

\* the theme after new ThemeManager() on that first visit
ThemeIdle ==
  /\ themeOp = [op |-> "load", stored |-> NULL, dark |-> FALSE]
  /\ storedTheme = "light"
  /\ colorScheme = "light"
  /\ tmTheme = "light"
  /\ prefersDark = FALSE
  /\ hasThemeToggle = TRUE
  /\ lastApplied = "light"
  /\ toggleRun = 0
  /\ toggleSnap = <<NULL, NULL, NULL>>

\* the audio player's part of the state while another component is studied
AudioIdle == AudioInit

\* The browser loads the page again: the document, its elements and the
\* script's variables are new, as in the page as parsed.  The localStorage
\* item read at line 4, the OS preference read at line 5, the elements the
\* page has, its layout, the device and the URL stay.
PageReload ==
  /\ tmTheme' = NULL
  /\ colorScheme' = NULL
  /\ lastApplied' = NULL
  /\ themeOp' = ThemeOp("reload")
  /\ toggleRun' = 0
  /\ toggleSnap' = <<NULL, NULL, NULL>>
  /\ UNCHANGED <<storedTheme, prefersDark, hasThemeToggle>>
  /\ ctxState' = "suspended"
  /\ resumePending' = FALSE
  /\ paused' = [t \in Tracks |-> TRUE]
  /\ muted' = [t \in Tracks |-> t = BgTrack]
  /\ currentTime' = [t \in Tracks |-> 0]
  /\ icon' = [t \in Buttons |-> [play |-> "", pause |-> ""]]
  /\ currentAudio' = NULL
  /\ currentSource' = NoSource
  /\ animationId' = 0
  /\ sourceMap' = [t \in Tracks |-> 0]
  /\ createCalls' = [t \in Tracks |-> 0]
  /\ connected' = {}
  /\ canvasActive' = FALSE
  /\ rafQueue' = {}
  /\ rafCounter' = 0
  /\ lastOp' = NoOp
  /\ firstClickArmed' = FALSE
  /\ fields' = EmptyFields
  /\ btnText' = IdleLabel
  /\ btnDisabled' = FALSE
  /\ inflight' = <<>>
  /\ messages' = {}
  /\ dismissTimers' = {}
  /\ formOp' = NoFormOp
  /\ canvasW' = 300
  /\ canvasH' = 150
  /\ ctxScale' = 100
  /\ resizeRun' = 0
  /\ resizeSnap' = <<0, 0, 0>>
  /\ UNCHANGED <<styleW, styleH, dpr>>
  /\ scrollY' = 0
  /\ activeLinks' = {}
  /\ scrollFrames' = 0
  /\ highlightedAt' = 0
  /\ scrollOp' = "none"
  /\ UNCHANGED <<sectionTop, sectionHeight>>
  /\ formBound' = FALSE
  /\ phase' = "parsed"
  /\ menuActive' = FALSE
  /\ toggleActive' = FALSE
  /\ uncaught' = {}
  /\ navOp' = NoNavOp
  /\ bodyLoaded' = FALSE
  /\ scrollTarget' = -1
  /\ UNCHANGED <<hasNavToggle, hasNavMenu, hasCanvas, hasForm, urlHash>>

\* a page with every element the components look up, as parsed and before the
\* script has run; localStorage and the OS preference are what the visitor has
InitTheme ==
  /\ ThemeInit /\ FormIdle
  /\ NavInit /\ hasNavToggle /\ hasNavMenu /\ hasCanvas /\ hasForm
  /\ AudioElements /\ firstClickArmed = FALSE
  /\ CanvasUnsized
  /\ ScrollUnbuilt
InitAudio == ThemeIdle /\ AudioInit /\ FormIdle /\ CanvasIdle /\ ScrollIdle /\ NavIdle
InitForm == ThemeIdle /\ AudioIdle /\ FormInit /\ CanvasIdle /\ ScrollIdle /\ NavIdle
InitCanvas == ThemeIdle /\ AudioIdle /\ FormIdle /\ CanvasInit /\ ScrollIdle /\ NavIdle
InitScroll == ThemeIdle /\ AudioIdle /\ FormIdle /\ CanvasIdle /\ ScrollInit /\ NavIdle
\* the page as parsed, before the script has run
InitNav ==
  /\ ThemeUnbuilt /\ FormIdle /\ NavInit
  /\ AudioElements /\ firstClickArmed = FALSE
  /\ CanvasUnsized
  /\ ScrollUnbuilt

\* every draft of the bounded alphabet, typed into the form before a submit
InitValidate ==
  /\ ThemeIdle /\ AudioIdle /\ CanvasIdle /\ ScrollIdle /\ NavIdle
  /\ fields \in [name : Str(1), email : Str(MaxEmailLen), message : Str(1)]
  /\ btnText = IdleLabel
  /\ btnDisabled = FALSE
  /\ inflight = <<>>
  /\ messages = {}
  /\ dismissTimers = {}
  /\ formOp = NoFormOp

NextTheme ==
  \/ ScriptLoad
  \/ ComponentsInit
  \/ PageReload
  \/ \E v \in ThemeValues : SetTheme(v)
  \/ Toggle
  \/ ThemeToggleClick
  \/ OsSchemeChange

SpecTheme == InitTheme /\ [][NextTheme]_vars

NextAudio ==
  \/ \E id \in Ids : togglePlay(id)
  \/ ContextResumed
  \/ BodyClick
  \/ \E f \in rafQueue : Frame(f)
  \/ \E t \in Tracks : Playback(t)

SpecAudio == InitAudio /\ [][NextAudio]_vars

NextForm ==
  \/ \E d \in Drafts : FillForm(d)
  \/ HandleSubmit
  \/ SubmitResolve
  \/ \E t \in dismissTimers : DismissFire(t)
  \/ Tick

SpecForm == InitForm /\ [][NextForm]_vars

NextCanvas ==
  \/ resizeCanvas
  \/ \E w \in StyleSizes, h \in StyleSizes, r \in Ratios : ViewportChange(w, h, r)

SpecCanvas == InitCanvas /\ [][NextCanvas]_vars

NextScroll ==
  \/ \E y \in ScrollPositions : ScrollTo(y)
  \/ updateActiveLink

SpecScroll == InitScroll /\ [][NextScroll]_vars

NextNav ==
  \/ ScriptLoad
  \/ ComponentsInit
  \/ \E target \in ClickTargets, href \in NavLinks \cup {NULL} : PageClick(target, href)

SpecNav == InitNav /\ [][NextNav]_vars

\* the validation of one typed draft: submit events alone
NextValidate == HandleSubmit

SpecValidate == InitValidate /\ [][NextValidate]_vars

(***************************************************************************)
(* Properties of the audio player                                          *)
(***************************************************************************)

Playing == {t \in Tracks : ~paused[t]}

\* the icon pair of a button as updateButtonIcon leaves it
ShowsPlay(t) == icon[t] = [play |-> "inline", pause |-> "none"]
ShowsPause(t) == icon[t] = [play |-> "none", pause |-> "inline"]

\* the last handler was a togglePlay that replaced another current track
Switched == lastOp.op = "play" /\ lastOp.prev \notin {NULL, lastOp.id}

\* C1: whenever a handler has returned, at most one audio element is playing
\* (not paused).
C1_AtMostOnePlaying == Cardinality(Playing) <= 1

\* C2: when togglePlay(B) is called while a different track A is current and
\* playing, then on return A is paused with the play icon on its button, B is
\* playing with the pause icon on its button, and currentAudio is B.
C2_SwitchTracks ==
  (Switched /\ lastOp.prevPlaying) =>
     /\ paused[lastOp.prev]
     /\ lastOp.prev \in Buttons => ShowsPlay(lastOp.prev)
     /\ ~paused[lastOp.id]
     /\ lastOp.id \in Buttons => ShowsPause(lastOp.id)
     /\ currentAudio = lastOp.id

C2_Witness ==
  /\ Switched /\ lastOp.prevPlaying
  /\ lastOp.prev \in Buttons /\ lastOp.id \in Buttons

\* C3: createMediaElementSource is called at most once per audio element, the
\* node it made is the one sourceMap caches, and every play leaves that cached
\* node in currentSource.
C3_SourceCreatedOnce ==
  /\ \A t \in Tracks : createCalls[t] <= 1 /\ sourceMap[t] = createCalls[t]
  /\ lastOp.op = "play" => currentSource = <<lastOp.id, sourceMap[lastOp.id]>>

C3_Witness ==
  /\ lastOp.op = "play" /\ lastOp.reused
  /\ createCalls[lastOp.id] = 1
  /\ \E t \in Tracks \ {lastOp.id} : createCalls[t] = 1

\* C4: when a togglePlay call pauses the current playing track, or pauses the
\* previous track while switching to another one, no animation-frame callback
\* of the previous track's render loop is pending when the handler returns.
C4_LoopStopped ==
  /\ lastOp.op = "pause" => \A f \in rafQueue : f.track # lastOp.id
  /\ Switched => \A f \in rafQueue : f.track # lastOp.prev

\* the step is a click that reaches document.body
ClickStep == lastOp'.op = "click"

\* C15: the autoplay listener runs on the first click only: that click
\* unmutes and starts the background track and removes the listener, the
\* listener is never registered again, and no later click changes whether
\* any track is muted, paused or where it plays.
C15_AutoplayOnce ==
  /\ [][(ClickStep /\ firstClickArmed) =>
          ~muted'[BgTrack] /\ ~paused'[BgTrack] /\ ~firstClickArmed']_vars
  /\ [][~firstClickArmed => ~firstClickArmed']_vars
  /\ [][(ClickStep /\ ~firstClickArmed) =>
          muted' = muted /\ paused' = paused /\ currentTime' = currentTime]_vars

\* a click after the first one found the background track paused and left it so
C15_Witness ==
  /\ lastOp.op = "click"
  /\ ~firstClickArmed
  /\ paused[BgTrack]
  /\ sourceMap[BgTrack] # 0

\* C17: a togglePlay call that pauses the current track keeps its playback
\* position and clears currentAudio; a togglePlay call that starts playback
\* leaves the track at position zero, also when the track had been paused by
\* togglePlay before.
C17_PauseKeepsPlayRewinds ==
  /\ [][lastOp'.op = "pause" =>
          /\ currentTime'[lastOp'.id] = currentTime[lastOp'.id]
          /\ currentAudio' = NULL]_vars
  /\ [][lastOp'.op = "play" =>
          /\ currentTime'[lastOp'.id] = 0
          /\ ~paused'[lastOp'.id]]_vars

\* a track paused by togglePlay in the middle of its playback
C17_Witness ==
  /\ lastOp.op = "pause"
  /\ currentTime[lastOp.id] > 0
  /\ currentTime[lastOp.id] < Duration
  /\ currentAudio = NULL

\* C18: at any time at most one animation-frame callback of the visualizer is
\* pending.
C18_SingleFrameChain == Cardinality(rafQueue) <= 1

\* the last handler was a togglePlay call
ToggleReturned == lastOp.op \in {"play", "pause", "noelement"}

\* C19: whenever a togglePlay call has returned, currentAudio, currentSource
\* and animationId are all null or all non-null; when non-null, currentSource
\* is the node sourceMap caches for currentAudio and the only source connected
\* to the analyser; and the canvas is 'active' exactly when they are non-null.
C19_PlayerStateCoherent ==
  ToggleReturned =>
    /\ \/ currentAudio = NULL /\ currentSource = NoSource /\ animationId = 0
       \/ currentAudio # NULL /\ currentSource # NoSource /\ animationId # 0
    /\ currentAudio # NULL =>
         /\ currentSource = <<currentAudio, sourceMap[currentAudio]>>
         /\ connected = {currentSource}
    /\ canvasActive <=> currentAudio # NULL

\* C20: a track's button shows the pause icon exactly when the track is
\* playing, and the play icon otherwise.
C20_IconMatchesPlayback ==
  \A t \in Buttons :
     /\ ~paused[t] => ShowsPause(t)
     /\ paused[t] => ~ShowsPause(t)

\* C16: resizeCanvas calls in succession, with the canvas's styled width and
\* height and the device pixel ratio unchanged between them, all leave the
\* same backing buffer width and height and the same drawing scale as the
\* first of them did; the scale is the pixel ratio, not a product of ratios.
C16_ResizeIdempotent ==
  resizeRun >= 1 =>
     /\ <<canvasW, canvasH, ctxScale>> = resizeSnap
     /\ ctxScale = dpr

\* a third call in succession on a 150.5px by 300px canvas at ratio 1.5
C16_Witness ==
  /\ resizeRun = MaxResizeRuns
  /\ styleW = 301 /\ styleH = 600 /\ dpr = 150
  /\ <<canvasW, canvasH, ctxScale>> = <<225, 450, 150>>

(***************************************************************************)
(* Properties of the NavigationHighlight                                   *)
(***************************************************************************)

\* updateActiveLink has run for the present scroll position
Highlighted == highlightedAt = scrollY

\* the vertical bounds of section id contain the page position point
Within(id, point) ==
  sectionTop[id] <= point /\ point < sectionTop[id] + sectionHeight[id]

\* C13 as stated: when the window is scrolled to a position within section
\* N's vertical bounds, updateActiveLink leaves exactly one nav link with the
\* class 'active', the link of section N.
C13_ScrolledSectionActive ==
  \A id \in Sections :
     (Highlighted /\ Within(id, scrollY)) => activeLinks = {Href(id)}

\* C13, amended: when the scroll position plus the 150-pixel look-ahead lies
\* within section N's vertical bounds, updateActiveLink leaves exactly one
\* nav link with the class 'active', the link of section N.
C13_LookAheadSectionActive ==
  \A id \in Sections :
     (Highlighted /\ Within(id, scrollY + LookAhead)) => activeLinks = {Href(id)}

\* a frame after a scroll into "home" found the look-ahead point in "about":
\* the link of "about" is the active one
C13_Witness ==
  /\ Highlighted
  /\ scrollOp = "frame"
  /\ scrollY > 0
  /\ Within("home", scrollY)
  /\ Within("about", scrollY + LookAhead)
  /\ activeLinks = {"#about"}

(***************************************************************************)
(* Properties of script load and the MobileNavigation                      *)
(***************************************************************************)

\* C12: whichever of the expected elements are missing from the page, script
\* load, component initialisation and every click handler complete without
\* raising an error.
C12_MissingElementsTolerated == uncaught = {}

\* the page has the toggle button and the menu
HasMobileMenu == hasNavToggle /\ hasNavMenu

\* C14: on a page with the toggle and the menu, once the DOMContentLoaded
\* timer has built the MobileNavigation, the menu is closed after
\* every click on a nav link or on a target outside both the toggle and the
\* menu, whatever its state before; a click on the toggle leaves the menu in
\* the state opposite to the one before the click, the document listener of
\* the same click notwithstanding; and the menu has the class 'active'
\* exactly when the toggle has it.
C14_MenuClicks ==
  HasMobileMenu =>
     /\ (IsNavLink(navOp.target) \/ navOp.target \in {"outside", "anchor", "themeToggle"})
           => ~menuActive
     /\ (navOp.target = "toggle" /\ navOp.bound) => menuActive = ~navOp.menuBefore
     /\ menuActive <=> toggleActive

\* the menu was closed, and a click on the toggle has left it open
C14_Witness ==
  /\ HasMobileMenu
  /\ navOp.target = "toggle"
  /\ ~navOp.menuBefore
  /\ menuActive /\ toggleActive

(***************************************************************************)
(* Properties of the ThemeManager                                          *)
(***************************************************************************)

\* C9: from every state of a constructed ThemeManager, two toggle() calls in
\* a row leave the theme field, the data-color-scheme attribute and the
\* stored value as they were before the two calls.
C9_ToggleTwice ==
  toggleRun = 2 => <<tmTheme, colorScheme, storedTheme>> = toggleSnap

\* C10: once the ThemeManager is constructed, the stored value, the
\* data-color-scheme attribute and the theme field all equal the value that
\* was applied last.
C10_ThemeConsistent ==
  tmTheme # NULL =>
     /\ storedTheme = lastApplied
     /\ colorScheme = lastApplied
     /\ tmTheme = lastApplied

C10_Witness ==
  /\ tmTheme # NULL
  /\ toggleRun = 1
  /\ storedTheme # toggleSnap[3]
  /\ storedTheme = "dark"

\* the OS preference as a theme: dark if and only if the OS prefers dark
OsTheme(dark) == IF dark THEN "dark" ELSE "light"

Loaded == themeOp.op = "load"

\* C11 as stated: the theme applied on a page load is the stored value when
\* localStorage holds one, and otherwise follows the OS preference of that
\* moment.
C11_LoadAppliesStored ==
  Loaded =>
     /\ themeOp.stored # NULL => tmTheme = themeOp.stored
     /\ themeOp.stored = NULL => tmTheme = OsTheme(themeOp.dark)

\* C11, amended: the theme applied on a page load is the stored value when
\* localStorage holds a non-empty one; when the item is absent or is the
\* empty string, the theme follows the OS preference of that moment (dark if
\* and only if the OS prefers dark).
C11_LoadAppliesNonEmptyStored ==
  Loaded =>
     /\ themeOp.stored \notin {NULL, ""} =>
           tmTheme = themeOp.stored /\ colorScheme = themeOp.stored
     /\ themeOp.stored \in {NULL, ""} =>
           tmTheme = OsTheme(themeOp.dark) /\ colorScheme = OsTheme(themeOp.dark)

\* a load that finds "light" stored while the OS prefers dark: the stored
\* value wins
C11_Witness ==
  /\ Loaded
  /\ themeOp.stored = "light"
  /\ themeOp.dark
  /\ tmTheme = "light"

(***************************************************************************)
(* Properties of the ContactForm                                           *)
(***************************************************************************)

\* The validation rules as the specification words them.
Blank(str) == \A i \in 1..Len(str) : IsSpace(str[i])

Occurrences(c, str) == {i \in 1..Len(str) : str[i] = c}

\* local@domain.tld: no blank, one "@" that is not the first character, and
\* after it a "." with at least one character on either side
WellFormed(email) ==
  /\ Occurrences(" ", email) = {}
  /\ Cardinality(Occurrences("@", email)) = 1
  /\ LET at == CHOOSE i \in Occurrences("@", email) : TRUE IN
       /\ at > 1
       /\ \E j \in Occurrences(".", email) : at + 1 < j /\ j < Len(email)

Violated(data) ==
  (IF Blank(data.name) THEN {"name"} ELSE {})
  \cup (IF Blank(data.email) \/ ~WellFormed(data.email) THEN {"email"} ELSE {})
  \cup (IF Blank(data.message) THEN {"message"} ELSE {})

LinesFor(field) ==
  CASE field = "name" -> {"Name is required"}
    [] field = "email" -> {"Email is required", "Please enter a valid email address"}
    [] field = "message" -> {"Message is required"}

Submitted == formOp.op \in {"invalid", "submitted"}

\* C5: a submission that passes validation disables the submit control and
\* labels it 'Sending...', and whenever no submission is in flight the control
\* is enabled and carries its idle label.
C5_ControlRestored ==
  /\ formOp.op = "submitted" => btnDisabled /\ btnText = "Sending..."
  /\ inflight = <<>> => ~btnDisabled /\ btnText = IdleLabel

\* C6: a submit reports exactly one error line per violated field, all in one
\* message; and with a field violated the submit control, the fields and the
\* submissions in flight are as they were before the submit.
C6_ValidationAggregates ==
  Submitted =>
    LET v == Violated(formOp.data) IN
    IF v = {} THEN formOp.op = "submitted"
    ELSE /\ formOp.op = "invalid"
         /\ Cardinality(messages) = 1
         /\ \A m \in messages :
              /\ m.type = "error"
              /\ Len(m.text) = Cardinality(v)
              /\ \A f \in v :
                   Cardinality({i \in 1..Len(m.text) : m.text[i] \in LinesFor(f)}) = 1
         /\ btnText = formOp.textBefore
         /\ btnDisabled = formOp.disabledBefore
         /\ fields = formOp.data
         /\ Len(inflight) = formOp.flightsBefore

C6_Witness ==
  /\ formOp.op = "invalid"
  /\ Violated(formOp.data) = {"name", "email", "message"}
  /\ ~Blank(formOp.data.email)
  /\ \E m \in messages : Len(m.text) = 3

\* C7: a submission whose fields pass validation starts the simulated submit,
\* which completes once the fixed delay has elapsed, not before, and then
\* shows the success message and clears the fields; the failure message is
\* never shown.
C7_ValidSubmissionSucceeds ==
  /\ (Submitted /\ Violated(formOp.data) = {}) =>
        /\ formOp.op = "submitted"
        /\ Len(inflight) = formOp.flightsBefore + 1
        /\ inflight[Len(inflight)].remaining = SubmitDelay
  /\ \A i \in 1..Len(inflight) : inflight[i].remaining <= SubmitDelay
  /\ formOp.op = "resolved" =>
        /\ formOp.waited >= SubmitDelay
        /\ fields = EmptyFields
        /\ \E m \in messages : m.type = "success" /\ m.text = SuccessText /\ m.shownFor = 0
  /\ \A m \in messages : m.text # FailureText

C7_Witness ==
  /\ formOp.op = "resolved"
  /\ \E m \in messages : m.type = "success"
  /\ fields = EmptyFields
  /\ inflight = <<>>

\* C8 as stated: at most one form message is displayed, no message stays
\* longer than the dismissal delay, and a dismissal timer removes no message
\* but the one it was started for.
C8_MessagesDismissed ==
  /\ Cardinality(messages) <= 1
  /\ \A m \in messages : m.shownFor <= DismissDelay
  /\ formOp.op = "dismiss" => formOp.removed \subseteq {formOp.timer}

\* C8, amended: at most one form message is displayed; every displayed
\* message has its own dismissal timer pending, due when the message has
\* been shown for the dismissal delay, so the message goes with the first run
\* of that callback, which is not before the delay has elapsed; and a
\* dismissal timer removes no message but the one it was started for.
C8_MessagesDismissedByOwnTimer ==
  /\ Cardinality(messages) <= 1
  /\ \A m \in messages :
        \E t \in dismissTimers : t.id = m.id /\ t.remaining = DismissDelay - m.shownFor
  /\ formOp.op = "dismiss" => formOp.removed \subseteq {formOp.timer}

\* an earlier message's timer fires while a later message is displayed
C8_Witness ==
  /\ formOp.op = "dismiss"
  /\ formOp.removed = {}
  /\ \E m \in messages : m.id # formOp.timer /\ m.shownFor > 0

====
